---- MODULE Spec2Model ----
(***************************************************************************)
(* Model of circuit_toolkit/Optimizers.py: the Cholesky-factor evolution   *)
(* strategy (CholeskyCMAES / CholeskyCMAES_torch / HessCMAES), rankweight  *)
(* and the spherical engine ZOHA_Sphere_lr_euclid.                         *)
(*                                                                         *)
(* Floating point numbers are modelled as fixed point integers: the real   *)
(* x is the integer round(x * Scale).  A non-finite float (NaN or +-Inf,   *)
(* the result of a division by zero) is the absorbing value NaN.           *)
(* An engine instance is a record of its fields; a method is an operator   *)
(* from the instance and the call's arguments to the instance after the    *)
(* call (field "raised" tells whether the call raised, field "ret" is the  *)
(* returned population).                                                   *)
(***************************************************************************)
EXTENDS Integers, Sequences, FiniteSets, TLC

\* ------------------------------------------------------------ bounds
\* Number of step_simple calls made on one engine instance.
MaxSteps == 3
\* Tolerance, in units of 1 / Scale, of the comparisons the fixed point
\* rounding makes approximate.
Tol == 20

\* ------------------------------------------------------ fixed point
Scale == 10 * 10 * 10
NaN == -(2147483647)

Abs(a) == IF a < 0 THEN -a ELSE a
Max2(a, b) == IF a >= b THEN a ELSE b

\* a / b rounded to the nearest integer, b # 0.
RDiv(a, b) ==
  IF b > 0 THEN (2 * a + b) \div (2 * b) ELSE (2 * (-a) + (-b)) \div (2 * (-b))

Fx(n) == n * Scale
Add(a, b) == IF a = NaN \/ b = NaN THEN NaN ELSE a + b
Sub(a, b) == IF a = NaN \/ b = NaN THEN NaN ELSE a - b
Neg(a) == IF a = NaN THEN NaN ELSE -a
Mul(a, b) == IF a = NaN \/ b = NaN THEN NaN ELSE RDiv(a * b, Scale)
Div(a, b) == IF a = NaN \/ b = NaN \/ b = 0 THEN NaN ELSE RDiv(a * Scale, b)

RECURSIVE SqrtIter(_, _, _)
SqrtIter(n, lo, hi) ==
  IF lo >= hi THEN lo
  ELSE LET mid == (lo + hi + 1) \div 2
       IN IF mid * mid <= n THEN SqrtIter(n, mid, hi) ELSE SqrtIter(n, lo, mid - 1)

\* floor of the square root of a natural number below 2^31
ISqrt(n) == SqrtIter(n, 0, 46340)

\* numpy.sqrt / math.sqrt
Sqrt(a) == IF a = NaN \/ a < 0 THEN NaN ELSE ISqrt(a * Scale)

RECURSIVE ExpSeries(_, _, _, _)
ExpSeries(x, term, k, acc) ==
  IF term = 0 \/ k > 12 THEN acc
  ELSE LET t == RDiv(term * x, k * Scale) IN ExpSeries(x, t, k + 1, acc + t)

\* numpy.exp / math.exp: the power series for x >= 0, its reciprocal for x < 0
Exp(a) ==
  IF a = NaN THEN NaN
  ELSE IF a >= 0 THEN ExpSeries(a, Scale, 1, Scale)
  ELSE RDiv(Scale * Scale, ExpSeries(-a, Scale, 1, Scale))

\* numpy.log at the half integers k/2, k = 1..40 (natural logarithm * Scale)
LogTable ==
  << -693, 0, 405, 693, 916, 1099, 1253, 1386, 1504, 1609,
     1705, 1792, 1872, 1946, 2015, 2079, 2140, 2197, 2251, 2303,
     2351, 2398, 2442, 2485, 2526, 2565, 2603, 2639, 2674, 2708,
     2741, 2773, 2803, 2833, 2862, 2890, 2918, 2944, 2970, 2996 >>
Log2x(k) == LogTable[k]

\* --------------------------------------------------- vectors, matrices
RECURSIVE SumSeq(_)
SumSeq(s) == IF s = << >> THEN 0 ELSE Head(s) + SumSeq(Tail(s))

HasNaN(v) == \E i \in 1..Len(v) : v[i] = NaN
MatHasNaN(M) == \E i \in 1..Len(M) : HasNaN(M[i])

Zeros(n) == [i \in 1..n |-> 0]
ZerosMat(r, c) == [i \in 1..r |-> Zeros(c)]
Eye(r, c) == [i \in 1..r |-> [j \in 1..c |-> IF i = j THEN Scale ELSE 0]]

NRows(M) == Len(M)
NCols(M) == IF Len(M) = 0 THEN 0 ELSE Len(M[1])

\* sum_k a[k] * b[k] of two fixed point vectors, rescaled once
Dot(a, b) ==
  IF HasNaN(a) \/ HasNaN(b) THEN NaN
  ELSE RDiv(SumSeq([k \in 1..Len(a) |-> a[k] * b[k]]), Scale)

Col(M, j) == [i \in 1..Len(M) |-> M[i][j]]
Transpose(M) == [j \in 1..NCols(M) |-> Col(M, j)]

\* X @ Y
MatMul(X, Y) == [i \in 1..Len(X) |-> [j \in 1..NCols(Y) |-> Dot(X[i], Col(Y, j))]]
\* s * X, X + Y, X - Y (s a scalar)
SMul(s, X) == [i \in 1..Len(X) |-> [j \in 1..Len(X[i]) |-> Mul(s, X[i][j])]]
MatAdd(X, Y) == [i \in 1..Len(X) |-> [j \in 1..Len(X[i]) |-> Add(X[i][j], Y[i][j])]]
MatSub(X, Y) == [i \in 1..Len(X) |-> [j \in 1..Len(X[i]) |-> Sub(X[i][j], Y[i][j])]]

\* numpy.linalg.norm of a 1 x n matrix
Norm(v) ==
  IF HasNaN(v) THEN NaN ELSE ISqrt(SumSeq([k \in 1..Len(v) |-> v[k] * v[k]]))

\* v @ M for a 1 x n row v (weights @ codes, pc @ Ainv, randzw @ A)
VecMat(v, M) == [j \in 1..NCols(M) |-> Dot(v, Col(M, j))]
VScale(s, v) == [j \in 1..Len(v) |-> Mul(s, v[j])]
VAdd(a, b) == [j \in 1..Len(a) |-> Add(a[j], b[j])]
\* (c * v.T) @ p: the outer product of the column c * v.T and the row p
Outer(c, v, p) == [i \in 1..Len(v) |-> [j \in 1..Len(p) |-> Mul(Mul(c, v[i]), p[j])]]
\* M[idx, :]
Rows(M, idx) == [k \in 1..Len(idx) |-> M[idx[k]]]
\* s[0:n]
Take(s, n) == SubSeq(s, 1, IF n < Len(s) THEN n ELSE Len(s))

\* ------------------------------------------------------------- argsort
\* numpy.argsort(s): the indices (1-based here) that sort s ascending; for
\* the short arrays of a population numpy sorts by insertion, which keeps
\* equal scores in index order.
RankOf(s, i) ==
  Cardinality({j \in 1..Len(s) : s[j] < s[i] \/ (s[j] = s[i] /\ j < i)}) + 1
ArgSort(s) == [k \in 1..Len(s) |-> CHOOSE i \in 1..Len(s) : RankOf(s, i) = k]
Negate(s) == [i \in 1..Len(s) |-> -s[i]]

\* ------------------------------------------------- CholeskyCMAES.__init__
\* None as the value of an optional number (population_size, Aupdate_freq,
\* cutoff) and of an optional array (init_code, an attribute not yet set)
None == 0 - 1
NoArray == << >>

\* int(4 + floor(3 * log2(N)))
DefaultLambda(N) == 4 + (CHOOSE k \in 0..30 : 2^k <= N * N * N /\ N * N * N < 2^(k + 1))

\* log(mu + 1/2) - log(arange(1, 1 + floor(mu))) with mu = lambda_ / 2
RawWeights(lambda_) ==
  [i \in 1..(lambda_ \div 2) |-> Log2x(lambda_ + 1) - Log2x(2 * i)]
NotNormalized(w) == w
\* weights / sum(weights)
Normalize(w) == LET s == SumSeq(w) IN [i \in 1..Len(w) |-> Div(w[i], s)]
\* weights.sum() ** 2 / sum(weights ** 2)
Mueff(w) == Div(Mul(SumSeq(w), SumSeq(w)), SumSeq([i \in 1..Len(w) |-> Mul(w[i], w[i])]))

\* rankweight(lambda_, mu): mu is None or a whole number; the default cutoff
\* lambda_ / 2 may be a half, so the cutoff is carried doubled (mu2 = 2 * mu).
\* Assigning floor(mu) entries to weights[:mu_int] raises ValueError when
\* floor(mu) > lambda_ (NoArray here).
rankweight(lambda_, mu) ==
  LET mu2 == IF mu = None THEN lambda_ ELSE 2 * mu
      mu_int == mu2 \div 2
      raw == [i \in 1..lambda_ |->
                IF i <= mu_int THEN Log2x(mu2 + 1) - Log2x(2 * i) ELSE 0]
  IN IF mu_int > lambda_ THEN NoArray ELSE Normalize(raw)

UpdateCritPerCall(Aupdate_freq, lambda_, c1, N) == Fx(Aupdate_freq)

\* update_crit, in fixed point: Aupdate_freq * lambda_, or lambda_ / c1 / N / 10
UpdateCrit(Aupdate_freq, lambda_, c1, N) ==
  IF Aupdate_freq = None THEN Div(Div(Div(Fx(lambda_), c1), Fx(N)), Fx(10))
  ELSE Fx(Aupdate_freq * lambda_)

\* The fields common to CholeskyCMAES.__init__ and HessCMAES.__init__; N is the
\* dimension the engine works in, L the length of pc and the columns of A.
Construct(kind, N, L, population_size, init_sigma, init_code, Aupdate_freq, maximize) ==
  LET lambda_ == IF population_size = None THEN DefaultLambda(N) ELSE population_size
      weights == Normalize(RawWeights(lambda_))
      mueff == Mueff(weights)
      cs == Div(Sqrt(mueff), Add(Sqrt(mueff), Sqrt(Fx(N))))
      c1 == Div(Fx(2), Mul(Fx(N) + Sqrt(Fx(2)), Fx(N) + Sqrt(Fx(2))))
  IN [ kind |-> kind,
       space_dimen |-> N,
       code_len |-> L,
       maximize |-> maximize,
       lambda_ |-> lambda_,
       mu |-> lambda_ \div 2,
       weights |-> weights,
       mueff |-> mueff,
       sigma |-> init_sigma,
       cc |-> Div(Fx(4), Fx(N + 4)),
       cs |-> cs,
       c1 |-> c1,
       damps |-> Scale + cs + 2 * Max2(0, Sub(Sqrt(Div(mueff - Scale, Fx(N + 1))), Scale)),
       init_x |-> init_code,
       xmean |-> Zeros(N),
       xold |-> Zeros(N),
       pc |-> Zeros(L),
       ps |-> Zeros(N),
       A |-> Eye(N, L),
       Ainv |-> Eye(L, N),
       eigeneval |-> 0,
       counteval |-> 0,
       update_crit |-> UpdateCrit(Aupdate_freq, lambda_, c1, N),
       chiN |-> Mul(Sqrt(Fx(N)), Scale - RDiv(Scale, 4 * N) + RDiv(Scale, 21 * N * N)),
       istep |-> 0,
       randz |-> NoArray,
       code_sort_index |-> NoArray,
       ret |-> NoArray,
       raised |-> FALSE ]

CholeskyCMAES(space_dimen, population_size, init_sigma, init_code, Aupdate_freq, maximize) ==
  Construct("CholeskyCMAES", space_dimen, space_dimen, population_size, init_sigma,
            init_code, Aupdate_freq, maximize)

HessCMAESReduced(space_dimen, population_size, cutoff, init_sigma, init_code, Aupdate_freq, maximize) ==
  Construct("HessCMAES", IF cutoff = None THEN space_dimen ELSE cutoff,
            IF cutoff = None THEN space_dimen ELSE cutoff,
            population_size, init_sigma, init_code, Aupdate_freq, maximize)
\* cutoff None means cutoff = space_dimen
HessCMAES(space_dimen, population_size, cutoff, init_sigma, init_code, Aupdate_freq, maximize) ==
  Construct("HessCMAES", IF cutoff = None THEN space_dimen ELSE cutoff, space_dimen,
            population_size, init_sigma, init_code, Aupdate_freq, maximize)

\* ---------------------------------------------- CholeskyCMAES.step_simple
\* a call that raises: the instance as mutated so far, nothing returned
Raise(self) == [self EXCEPT !.raised = TRUE, !.ret = NoArray]

\* M[idx, :] raises IndexError unless every index is a row of M
IndexOK(idx, M) == \A k \in 1..Len(idx) : idx[k] <= Len(M)

SortIndexAscending(maximize, scores) == ArgSort(scores)
\* np.argsort(scores) when minimizing, np.argsort(-scores) otherwise
SortIndex(maximize, scores) ==
  IF maximize = FALSE THEN ArgSort(scores) ELSE ArgSort(Negate(scores))

InitialMeanNotRenormalized(weights, codes, sel) ==
  VecMat(Take(weights, Len(sel)), Rows(codes, sel))
\* temp_weight @ codes[code_sort_index[0:mu], :], the weights renormalized
\* over the select_n codes there are
InitialMean(weights, codes, sel) ==
  VecMat(Normalize(Take(weights, Len(sel))), Rows(codes, sel))

RecombineUnweighted(weights, codes, sel) ==
  VecMat([k \in 1..Len(weights) |-> RDiv(Scale, Len(weights))], Rows(codes, sel))
\* weights @ codes[code_sort_index[0:mu], :]
Recombine(weights, codes, sel) == VecMat(weights, Rows(codes, sel))

\* ps = (1 - cs) * ps + sqrt(cs * (2 - cs) * mueff) * randzw
UpdatePs(self, randzw) ==
  VAdd(VScale(Scale - self.cs, self.ps),
       VScale(Sqrt(Mul(Mul(self.cs, 2 * Scale - self.cs), self.mueff)), randzw))

\* pc = (1 - cc) * pc + sqrt(cc * (2 - cc) * mueff) * randzw @ A
UpdatePc(self, randzw) ==
  VAdd(VScale(Scale - self.cc, self.pc),
       VecMat(VScale(Sqrt(Mul(Mul(self.cc, 2 * Scale - self.cc), self.mueff)), randzw),
              self.A))

UpdateSigmaNoExp(self, ps) ==
  Mul(self.sigma, Mul(Div(self.cs, self.damps), Sub(Div(Norm(ps), self.chiN), Scale)))
\* sigma = sigma * exp((cs / damps) * (norm(ps) / chiN - 1))
UpdateSigma(self, ps) ==
  Mul(self.sigma, Exp(Mul(Div(self.cs, self.damps), Sub(Div(Norm(ps), self.chiN), Scale))))

RefreshDueAtThreshold(self) == Fx(self.counteval - self.eigeneval) >= self.update_crit
\* if self.counteval - self.eigeneval > self.update_crit
RefreshDue(self) == Fx(self.counteval - self.eigeneval) > self.update_crit

\* sqrt(1 + normv * c1 / (1 - c1))
Radicand(normv, c1) == Sqrt(Add(Scale, Div(Mul(normv, c1), Sub(Scale, c1))))

\* A = sqrt(1 - c1) * A + sqrt(1 - c1) / normv * (sqrt(1 + normv * c1 / (1 - c1)) - 1) * v.T @ pc
UpdateA(A, pc, v, normv, c1) ==
  LET a == Sqrt(Scale - c1)
  IN MatAdd(SMul(a, A),
            Outer(Mul(Div(a, normv), Sub(Radicand(normv, c1), Scale)), v, pc))

\* Ainv = 1 / sqrt(1 - c1) * Ainv
\*        - 1 / sqrt(1 - c1) / normv * (1 - 1 / sqrt(1 + normv * c1 / (1 - c1))) * Ainv @ v.T @ v
UpdateAinv(Ainv, v, normv, c1) ==
  LET a == Sqrt(Scale - c1)
      k == Mul(Div(Div(Scale, a), normv), Sub(Scale, Div(Scale, Radicand(normv, c1))))
      u == [i \in 1..Len(Ainv) |-> Dot(VScale(k, Ainv[i]), v)]
  IN MatSub(SMul(Div(Scale, a), Ainv),
            [i \in 1..Len(Ainv) |-> [j \in 1..Len(v) |-> Mul(u[i], v[j])]])

\* xmean + M with numpy broadcasting of the 1 x n row xmean; NoArray when
\* the shapes cannot be broadcast (ValueError)
Broadcastable(x, M) == Len(x) = NCols(M) \/ Len(x) = 1 \/ NCols(M) = 1
BroadcastAdd(x, M) ==
  LET w == IF Len(x) >= NCols(M) THEN Len(x) ELSE NCols(M)
      xe(j) == IF Len(x) = 1 THEN x[1] ELSE x[j]
      me(i, j) == IF NCols(M) = 1 THEN M[i][1] ELSE M[i][j]
  IN [i \in 1..Len(M) |-> [j \in 1..w |-> Add(xe(j), me(i, j))]]

\* Lines 125-138: draw randz, sample, count.  upd holds the path, step size
\* and factor values of this call: CholeskyCMAES assigns them to the instance
\* as it computes them, HessCMAES keeps them in locals and writes them back
\* on its last line, after the sampling.
Sample(self, upd, z) ==
  LET direct == [self EXCEPT !.ps = upd.ps, !.pc = upd.pc, !.sigma = upd.sigma,
                             !.A = upd.A, !.Ainv = upd.Ainv]
      held == IF self.kind = "HessCMAES" THEN self ELSE direct
      drawn == [held EXCEPT !.randz = z]
      step == MatMul(SMul(upd.sigma, z), upd.A)
  IN IF ~Broadcastable(self.xmean, step) THEN Raise(drawn)
     ELSE [direct EXCEPT !.randz = z,
                         !.ret = BroadcastAdd(self.xmean, step),
                         !.counteval = self.counteval + self.lambda_,
                         !.istep = self.istep + 1,
                         !.raised = FALSE]

AdaptedAtOnce(self) ==
  [ps |-> self.ps, pc |-> self.pc, sigma |-> UpdateSigma(self, self.ps), A |-> self.A,
   Ainv |-> self.Ainv]
\* the first generation assigns none of the paths, step size and factors
Unchanged(self) ==
  [ps |-> self.ps, pc |-> self.pc, sigma |-> self.sigma, A |-> self.A, Ainv |-> self.Ainv]

\* Lines 91-98: the first generation
FirstGeneration(self, codes, sel, z) ==
  IF self.init_x = NoArray
  THEN IF ~IndexOK(sel, codes) THEN Raise(self)
       ELSE Sample([self EXCEPT !.xmean = InitialMean(self.weights, codes, sel)],
                   Unchanged(self), z)
  ELSE Sample([self EXCEPT !.xmean = self.init_x], Unchanged(self), z)

\* Lines 111-121: the refresh of the factor pair
Refresh(self, ps, pc, sigma) ==
  IF RefreshDue(self)
  THEN LET v == VecMat(pc, self.Ainv)
           normv == Dot(v, v)
       IN [ps |-> ps, pc |-> pc, sigma |-> sigma, eigeneval |-> self.counteval,
           A |-> UpdateA(self.A, pc, v, normv, self.c1),
           Ainv |-> UpdateAinv(self.Ainv, v, normv, self.c1)]
  ELSE [ps |-> ps, pc |-> pc, sigma |-> sigma, eigeneval |-> self.eigeneval,
        A |-> self.A, Ainv |-> self.Ainv]

\* Lines 99-124: every later generation
LaterGeneration(self, codes, sel, z) ==
  LET s1 == [self EXCEPT !.xold = self.xmean]
  IN IF ~IndexOK(sel, codes) \/ Len(sel) # Len(self.weights) THEN Raise(s1)
     ELSE LET s2 == [s1 EXCEPT !.xmean = Recombine(self.weights, codes, sel)]
          IN IF ~IndexOK(sel, self.randz) THEN Raise(s2)
             ELSE LET randzw == VecMat(self.weights, Rows(self.randz, sel))
                      ps == UpdatePs(self, randzw)
                      pc == UpdatePc(self, randzw)
                      upd == Refresh(self, ps, pc, UpdateSigma(self, ps))
                  IN Sample([s2 EXCEPT !.eigeneval = upd.eigeneval], upd, z)

\* step_simple(scores, codes) with z the matrix randn(lambda_, N) returns
\* (code_sort_index, a local of the call, is kept in the record for the properties)
StepSimple(self, scores, codes, z) ==
  LET code_sort_index == SortIndex(self.maximize, scores)
      sel == Take(code_sort_index, self.mu)
      s0 == [self EXCEPT !.code_sort_index = code_sort_index]
  IN IF self.istep = 0 THEN FirstGeneration(s0, codes, sel, z)
     ELSE LaterGeneration(s0, codes, sel, z)

\* ------------------------------------------------- HessCMAES.set_Hessian
\* eigvals ** (-expon) for whole eigenvalues: exp(-expon * log(eigval))
Scaling(eigvals, expon) ==
  [i \in 1..Len(eigvals) |-> Exp(Neg(Mul(expon, Log2x(2 * eigvals[i]))))]

\* eigvects holds the eigenvectors as columns; cutoff = self.space_dimen
SetHessian(self, eigvals, eigvects, expon) ==
  LET cutoff == self.space_dimen
      scaling == Scaling(Take(eigvals, cutoff), expon)
      vt == Take(Transpose(eigvects), cutoff)
  IN [self EXCEPT
        !.A = [i \in 1..cutoff |-> VScale(scaling[i], vt[i])],
        !.Ainv = [r \in 1..Len(eigvects) |->
                    [i \in 1..cutoff |-> Mul(Div(Scale, scaling[i]), eigvects[r][i])]]]


\* ------------------------------------------------------ geometry_utils
\* circuit_toolkit.geometry_utils is imported by Optimizers.py and is not
\* among the source files: renormalize, SLERP and ExpMap follow the
\* specification's description of them (section 4.4).
Pi == 3142

RECURSIVE TrigSeries(_, _, _, _)
\* sum of the alternating series whose term after `term` is
\* -term * x2 / (k * (k + 1))
TrigSeries(x2, term, k, acc) ==
  IF term = 0 \/ k > 24 THEN acc
  ELSE LET t == -RDiv(term * x2, k * (k + 1) * Scale)
       IN TrigSeries(x2, t, k + 2, acc + t)

\* numpy.cos, numpy.sin
Cos(a) == IF a = NaN THEN NaN ELSE TrigSeries(Mul(a, a), Scale, 1, Scale)
Sin(a) == IF a = NaN THEN NaN ELSE TrigSeries(Mul(a, a), a, 2, a)

\* "rescaling to unit norm times r"
Rescale(v, r) == [j \in 1..Len(v) |-> Div(Mul(v[j], r), Norm(v))]
\* ... of every row of M
renormalize(M, r) == [i \in 1..Len(M) |-> Rescale(M[i], r)]

\* "spherical linear interpolation with a learning-rate fraction" t between
\* the rows a and b of one norm: the point of their great circle at t times
\* their angle from a, a point of the same norm.  For the fractions the
\* engines are run with: at 1/2 the direction of a + b, at 1 the direction
\* of b, at 3/2 the mirror image in b of the direction of a + b.  No such
\* point is defined for antipodal rows (NaN).
Mirror(m, b) ==
  [j \in 1..Len(b) |->
     IF HasNaN(m) \/ HasNaN(b) \/ Dot(b, b) = 0 THEN NaN
     ELSE RDiv(2 * Dot(m, b) * b[j], Dot(b, b)) - m[j]]
SLERP(a, b, t) ==
  LET mid == Rescale(VAdd(a, b), Norm(a))
  IN IF 2 * t = Scale THEN mid
     ELSE IF 2 * t = 3 * Scale THEN Rescale(Mirror(mid, b), Norm(a))
     ELSE Rescale(VAdd(VScale(0, a), b), Norm(a))

\* "map each back onto the sphere via the exponential map anchored at" x:
\* the point at arc length |t| from x along the great circle leaving x in the
\* direction of the tangent vector t, for every row t of tang_vec
ExpMap(x, tang_vec) ==
  [i \in 1..Len(tang_vec) |->
     LET t == tang_vec[i]
         angle == Norm(t)
     IN IF angle = 0 THEN x
        ELSE VAdd(VScale(Cos(angle), x),
                  VScale(Mul(Sin(angle), Div(Norm(x), angle)), t))]

\* ------------------------------------------------- ZOHA_Sphere_lr_euclid
\* __init__; mulist, mu_init and mu_final are not attributes until
\* lr_schedule sets them (NoArray, None here).  weights is a local of
\* step_simple and first_generations counts the returning calls that took
\* the istep == -1 branch: both are kept in the record for the properties.
ZOHA_Sphere_lr_euclid(space_dimen, population_size, select_size, lr, maximize, rankweight_, rankbasis, sphere_norm) ==
  [ kind |-> "ZOHA_Sphere_lr_euclid",
    dimen |-> space_dimen,
    B |-> population_size,
    select_cutoff |-> select_size,
    sphere_norm |-> sphere_norm,
    lr |-> lr,
    tang_codes |-> ZerosMat(population_size, space_dimen),
    grad |-> ZerosMat(1, space_dimen),
    innerU |-> ZerosMat(population_size, space_dimen),
    outerV |-> ZerosMat(population_size, space_dimen),
    xcur |-> ZerosMat(1, space_dimen),
    xnew |-> ZerosMat(1, space_dimen),
    istep |-> 0 - 1,
    maximize |-> maximize,
    rankweight |-> rankweight_,
    rankbasis |-> rankbasis,
    mulist |-> NoArray,
    mu_init |-> None,
    mu_final |-> None,
    weights |-> NoArray,
    first_generations |-> 0,
    ret |-> NoArray,
    raised |-> FALSE ]

\* degrees / 180 * np.pi / sqrt(self.dimen)
Magnitude(deg, dimen) == Div(Mul(Div(deg, Fx(180)), Pi), Sqrt(Fx(dimen)))

\* 15 + 1 / (0.0017 * g + 0.0146), g = 1..n_gen
InvSchedule(n_gen) == [g \in 1..n_gen |-> Fx(15) + RDiv(10000 * Scale, 17 * g + 146)]
\* linspace(a, b, n_gen)
LinSchedule(a, b, n_gen) ==
  [g \in 1..n_gen |-> IF n_gen = 1 THEN a ELSE a + RDiv((g - 1) * (b - a), n_gen - 1)]
\* logspace(log10(a), log10(b), n_gen) for n_gen <= 3: a, sqrt(a * b), b
ExpSchedule(a, b, n_gen) ==
  [g \in 1..n_gen |->
     IF g = 1 THEN a ELSE IF g = n_gen THEN b ELSE ISqrt(a * b)]

\* lr_schedule(n_gen, mode, lim)
LrSchedule(self, n_gen, mode, lim) ==
  IF mode = "inv"
  THEN LET mulist == [g \in 1..n_gen |-> Magnitude(InvSchedule(n_gen)[g], self.dimen)]
       IN IF n_gen = 0 THEN [self EXCEPT !.mulist = mulist, !.raised = TRUE]
          ELSE [self EXCEPT !.mulist = mulist, !.mu_init = mulist[1],
                            !.mu_final = mulist[n_gen], !.raised = FALSE]
  ELSE LET s == [self EXCEPT !.mu_init = lim[1], !.mu_final = lim[2], !.raised = FALSE]
       IN IF mode = "lin"
          THEN [s EXCEPT !.mulist =
                  [g \in 1..n_gen |-> Magnitude(LinSchedule(lim[1], lim[2], n_gen)[g], self.dimen)]]
          ELSE IF mode = "exp"
          THEN [s EXCEPT !.mulist =
                  [g \in 1..n_gen |-> Magnitude(ExpSchedule(lim[1], lim[2], n_gen)[g], self.dimen)]]
          ELSE s

\* ------------------------------------- ZOHA_Sphere_lr_euclid.step_simple
ScoreDifferenceFromBest(scores, B) ==
  LET best == CHOOSE s \in { scores[i] : i \in 1..Len(scores) } :
                \A i \in 1..Len(scores) : scores[i] <= s
  IN [i \in 1..Len(scores) |-> Div(Fx(scores[i] - best), Fx(B))]
\* (scores - scores[0]) / self.B
ScoreDifference(scores, B) ==
  [i \in 1..Len(scores) |-> Div(Fx(scores[i] - scores[1]), Fx(B))]

\* scores.argsort().argsort() when minimizing, (-scores).argsort().argsort()
\* otherwise: the rank (1-based here) of every entry
CodeRank(maximize, s) ==
  LET key == IF maximize = FALSE THEN s ELSE Negate(s)
  IN [i \in 1..Len(s) |-> RankOf(key, i)]

\* raw_weights[code_rank]
RankWeights(raw_weights, code_rank) ==
  [i \in 1..Len(code_rank) |-> raw_weights[code_rank[i]]]

BasisAppended(weights) == Append(weights, 0)
\* np.append(0, weights)
BasisExcluded(weights) == << 0 >> \o weights

\* scores[1:] unless rankbasis
RankedScore(rankbasis, scores) ==
  IF rankbasis = FALSE THEN (IF scores = << >> THEN << >> ELSE Tail(scores)) ELSE scores

\* Lines 482-492 and 499-516: the weights of the call, NoArray when their
\* computation raises (scores[0] of no scores, floor(mu) > lambda_ in
\* rankweight)
Weights(self, scores) ==
  IF self.rankweight = FALSE
  THEN IF scores = << >> THEN NoArray ELSE ScoreDifference(scores, self.B)
  ELSE IF self.istep = 0 - 1
  THEN RankWeights(rankweight(Len(scores), None), CodeRank(self.maximize, scores))
  ELSE LET rankedscore == RankedScore(self.rankbasis, scores)
           raw_weights == rankweight(Len(rankedscore), self.select_cutoff)
           weights == RankWeights(raw_weights, CodeRank(self.maximize, rankedscore))
       IN IF raw_weights = NoArray THEN NoArray
          ELSE IF self.rankbasis = FALSE THEN BasisExcluded(weights) ELSE weights

\* w_mean / norm(w_mean) * self.sphere_norm
Project(w_mean, sphere_norm) ==
  [j \in 1..Len(w_mean) |-> Mul(Div(w_mean[j], Norm(w_mean)), sphere_norm)]

\* Lines 477-521: the new base point, from the weighted mean alone in the
\* first generation, by SLERP from xcur towards it afterwards
NewBase(self, xcur, weights, codes) ==
  LET w_mean == Project(VecMat(weights, codes), self.sphere_norm)
  IN IF self.istep = 0 - 1 THEN w_mean ELSE SLERP(xcur, w_mean, self.lr)

\* outerV - (outerV @ xnew.T) @ xnew / norm(xnew) ** 2
TangentProjection(outerV, xnew) ==
  [i \in 1..Len(outerV) |->
     [j \in 1..Len(xnew) |->
        Sub(outerV[i][j],
            Div(Mul(Dot(outerV[i], xnew), xnew[j]), Mul(Norm(xnew), Norm(xnew))))]]

ScheduleIndexLast(istep, n) == n
\* mulist[istep + 1] if istep < len(mulist) - 1 else mulist[-1]
ScheduleIndex(istep, n) == IF istep < n - 1 THEN istep + 2 ELSE n

NewSamplesWithoutBase(xnew, samples) == samples
\* new_samples[0, :] = xnew; new_samples[1:, :] = ExpMap(xnew, tang_codes)
NewSamples(xnew, samples) == << xnew >> \o samples

StayAtGeneration(istep) == istep
\* self.istep = self.istep + 1
NextGeneration(istep) == istep + 1

\* step_simple(scores, codes) with u the matrix randn(B, N) returns
SphereStepSimple(self, scores, codes, u) ==
  LET s1 == [self EXCEPT !.xcur = Take(codes, 1)]
      weights == Weights(self, scores)
  IN IF weights = NoArray \/ Len(weights) # NRows(codes) THEN Raise(s1)
     ELSE LET xnew == NewBase(self, codes[1], weights, codes)
              outerV == TangentProjection(u, xnew)
              s2 == [s1 EXCEPT !.weights = weights,
                               !.xnew = << xnew >>,
                               !.tang_codes = ZerosMat(self.B, self.dimen),
                               !.innerU = u,
                               !.outerV = outerV]
          IN IF Len(xnew) # NCols(u) \/ self.mulist = NoArray THEN Raise(s2)
             ELSE LET mu == self.mulist[ScheduleIndex(self.istep, Len(self.mulist))]
                      tang_codes == SMul(mu, outerV)
                      new_samples == NewSamples(xnew, ExpMap(xnew, tang_codes))
                  IN [s2 EXCEPT !.tang_codes = tang_codes,
                                !.istep = NextGeneration(self.istep),
                                !.first_generations =
                                   IF self.istep = 0 - 1 THEN @ + 1 ELSE @,
                                !.ret = renormalize(new_samples, self.sphere_norm),
                                !.raised = FALSE]


\* ------------------------------------------------------- the environment
\* What the caller passes, as fixed point numbers where they are reals.
Dimen == 2
PopSize == 4
V(a, b) == << Fx(a), Fx(b) >>

InitSigmas == { Fx(3) }
InitCodes == { NoArray, V(1, 2) }
UpdateFreqs == { 0, 1 }

ScoreSet == { <<1, 2, 3, 4>>, <<3, 3, 1, 2>> }
CodeSet == { << V(1, 0), V(0, 1), V(1, 1), V(0, 0) >>,
             << V(2, 1), V(0, 0), V(0, 2), V(1, 0) >> }
\* the matrices randn(lambda_, N) may return
ZSet == { << V(0, 0), V(0, 0), V(0, 0), V(0, 0) >>,
          << V(1, 0), V(0, 1), V(0 - 1, 1), V(1, 2) >> }
\* the curvature data passed to set_Hessian: eigenvalues, orthonormal
\* eigenvectors as columns
HessianSet == { [eigvals |-> <<4, 1>>, eigvects |-> << V(1, 0), V(0, 1) >>],
                [eigvals |-> <<2, 3>>, eigvects |-> << V(0, 1), V(1, 0) >>] }
Expon == RDiv(2 * Scale, 5)

VARIABLES
  optim,    \* the engine instance
  prev,     \* the instance before the last call
  op,       \* the last call: "init", "set_Hessian" or "step_simple"
  scores,   \* the arguments of the last step_simple call
  codes

vars == << optim, prev, op, scores, codes >>

Init ==
  /\ \/ \E sigma \in InitSigmas, init_code \in InitCodes, freq \in UpdateFreqs,
           maximize \in BOOLEAN :
          optim = CholeskyCMAES(Dimen, PopSize, sigma, init_code, freq, maximize)
     \/ \E sigma \in InitSigmas :
          optim = HessCMAES(Dimen, PopSize, None, sigma, NoArray, 0, TRUE)
  /\ prev = optim
  /\ op = "init"
  /\ scores = NoArray
  /\ codes = NoArray

\* optim.set_Hessian(eigvals, eigvects, expon), once and before the first step
set_Hessian ==
  /\ optim.kind = "HessCMAES"
  /\ op = "init"
  /\ \E H \in HessianSet : optim' = SetHessian(optim, H.eigvals, H.eigvects, Expon)
  /\ prev' = optim
  /\ op' = "set_Hessian"
  /\ UNCHANGED << scores, codes >>

\* optim.step_simple(scores, codes)
step_simple ==
  /\ optim.istep < MaxSteps
  /\ \E sc \in ScoreSet, cd \in CodeSet, z \in ZSet :
       /\ optim' = StepSimple(optim, sc, cd, z)
       /\ scores' = sc
       /\ codes' = cd
  /\ prev' = optim
  /\ op' = "step_simple"

Next == set_Hessian \/ step_simple

Spec == Init /\ [][Next]_vars

\* ------------------------------------- the spherical engine's environment
SphereB == 3
SelectSize == 2
SphereNorm == Fx(5)
Half == RDiv(Scale, 2)

\* (lr, maximize, rankweight, rankbasis) of the instances constructed, with
\* the (n_gen, mode) their caller passes to lr_schedule; lim is the default
\* (50, 7.33)
SphereConfigs ==
  { << Scale + Half, TRUE, TRUE, FALSE, 2, "inv" >>,
    << Scale, FALSE, TRUE, TRUE, 1, "lin" >>,
    << Scale + Half, TRUE, FALSE, FALSE, 3, "exp" >>,
    << Half, FALSE, TRUE, FALSE, 2, "inv" >> }
ConfigOf(self) == << self.lr, self.maximize, self.rankweight, self.rankbasis >>
Lim == << Fx(50), 7330 >>

SphereScoreSet == { <<2, 3, 3, 1>>, <<2, 2, 2, 2>>, <<4, 1, 3, 2>> }
\* codes on the sphere of radius 5, and the codes a first call may be given
OnSphere == << V(3, 4), V(5, 0), V(0, 5), V(4, 3) >>
OffSphere == << V(1, 0), V(0, 2), V(1, 1), V(2, 1) >>
\* the matrices randn(B, N) may return
USet == { << V(1, 0), V(0, 1), V(0 - 1, 1) >>,
          << V(1, 2), V(0, 0 - 1), V(2, 0 - 1) >> }

SphereInit ==
  /\ \E c \in SphereConfigs :
       optim = ZOHA_Sphere_lr_euclid(Dimen, SphereB, SelectSize, c[1], c[2], c[3], c[4],
                                     SphereNorm)
  /\ prev = optim
  /\ op = "init"
  /\ scores = NoArray
  /\ codes = NoArray

\* optim.lr_schedule(n_gen, mode)
lr_schedule ==
  /\ \E c \in SphereConfigs :
       /\ ConfigOf(optim) = << c[1], c[2], c[3], c[4] >>
       /\ optim' = LrSchedule(optim, c[5], c[6], Lim)
  /\ prev' = optim
  /\ op' = "lr_schedule"
  /\ UNCHANGED << scores, codes >>

\* optim.step_simple(scores, codes): the codes are the population the last
\* call returned, or a population of the caller's
sphere_step_simple ==
  /\ optim.istep + 1 < MaxSteps
  /\ \E sc \in SphereScoreSet, u \in USet,
        cd \in { OnSphere }
               \cup (IF optim.istep = 0 - 1 THEN { OffSphere } ELSE { })
               \cup (IF optim.ret # NoArray THEN { optim.ret } ELSE { }) :
       /\ optim' = SphereStepSimple(optim, sc, cd, u)
       /\ scores' = sc
       /\ codes' = cd
  /\ prev' = optim
  /\ op' = "step_simple"

SphereNext == lr_schedule \/ sphere_step_simple

SpecSphere == SphereInit /\ [][SphereNext]_vars

\* --------------------------------------------------------- properties
\* The position (1 = best) of individual i when the population is ranked by
\* fitness: by descending score when maximizing, ascending otherwise.
FitnessRank(sc, maximize, i) ==
  1 + Cardinality({ j \in 1..Len(sc) :
        \/ (IF maximize THEN sc[j] > sc[i] ELSE sc[j] < sc[i])
        \/ (sc[j] = sc[i] /\ j < i) })

\* sum_i w[rank of i] * cd[i], the individuals ranked beyond Len(w) left out
WeightedRecombination(w, sc, maximize, cd) ==
  [c \in 1..NCols(cd) |->
     RDiv(SumSeq([i \in 1..Len(cd) |->
            LET r == FitnessRank(sc, maximize, i)
            IN IF r <= Len(w) THEN w[r] * cd[i][c] ELSE 0]), Scale)]

\* the first k weights renormalized to sum to 1
Renormalized(w, k) ==
  LET s == SumSeq(SubSeq(w, 1, k)) IN [i \in 1..k |-> RDiv(w[i] * Scale, s)]

Stepped == op = "step_simple" /\ ~optim.raised
FirstCall == prev.istep = 0
RefreshWasDue == Fx(prev.counteval - prev.eigeneval) > prev.update_crit
FactorsChanged == optim.A # prev.A \/ optim.Ainv # prev.Ainv

\* C1: a step call changes the factor pair (A, Ainv) or the recorded refresh
\* time only when, at that call, counteval - eigeneval is strictly greater
\* than update_crit; a refresh sets eigeneval to the counteval of the call;
\* every other step call leaves A, Ainv and eigeneval as they were.
C1_RefreshOnlyWhenDue ==
  op = "step_simple" =>
    /\ (FactorsChanged \/ optim.eigeneval # prev.eigeneval)
         => (RefreshWasDue /\ optim.eigeneval = prev.counteval)
    /\ ~RefreshWasDue
         => (optim.A = prev.A /\ optim.Ainv = prev.Ainv
             /\ optim.eigeneval = prev.eigeneval)

C1_Witness ==
  /\ op = "step_simple"
  /\ optim.kind = "HessCMAES"
  /\ FactorsChanged
  /\ optim.eigeneval = prev.counteval
  /\ ~MatHasNaN(optim.A)

\* C2 as stated: the mean is the renormalized average of the best mu codes
\* on a first call without initial mean, and the weighted recombination
\* w . codes[best mu] of the call's codes in every other case.
C2_MeanAsClaimed ==
  Stepped =>
    optim.xmean =
      IF FirstCall /\ prev.init_x = NoArray
      THEN WeightedRecombination(Renormalized(optim.weights, optim.mu), scores,
                                 optim.maximize, codes)
      ELSE WeightedRecombination(optim.weights, scores, optim.maximize, codes)

\* C2 as amended: on the first call of an engine constructed with an initial
\* mean the mean is that initial mean, whatever the codes; on a first call
\* without initial mean it is the renormalized average of the best mu codes;
\* on every later call it is the weighted recombination w . codes[best mu].
C2_MeanByGeneration ==
  Stepped =>
    optim.xmean =
      IF FirstCall /\ prev.init_x # NoArray THEN prev.init_x
      ELSE IF FirstCall
      THEN WeightedRecombination(Renormalized(optim.weights, optim.mu), scores,
                                 optim.maximize, codes)
      ELSE WeightedRecombination(optim.weights, scores, optim.maximize, codes)

C2_Witness ==
  /\ Stepped
  /\ optim.istep >= 2
  /\ prev.init_x # NoArray
  /\ optim.xmean # prev.init_x
  /\ optim.xmean = WeightedRecombination(optim.weights, scores, optim.maximize, codes)

\* The weight individual i received in the mean of the last call: the weight
\* at its place in code_sort_index[0:mu], zero when it is not among them.
ReceivedWeight(i) ==
  LET at == { k \in 1..optim.mu : optim.code_sort_index[k] = i }
  IN IF at = {} THEN 0 ELSE optim.weights[CHOOSE k \in at : TRUE]

NonIncreasing(w) == \A k \in 1..(Len(w) - 1) : w[k] >= w[k + 1]

\* C3: the recombination weight of an individual is non-increasing in its
\* fitness rank (descending score when maximizing, ascending otherwise), the
\* best ranked individual has the largest weight, an individual ranked at or
\* beyond mu has weight zero and does not contribute to the mean; the vector
\* rankweight(lambda, mu) has the same shape for every cutoff 1..lambda.
C3_WeightFollowsRank ==
  /\ \A m \in { None } \cup (1..PopSize) :
       LET w == rankweight(PopSize, m)
           cut == IF m = None THEN PopSize \div 2 ELSE m
       IN /\ Len(w) = PopSize
          /\ NonIncreasing(w)
          /\ \A k \in 1..PopSize : (w[k] > 0) <=> (k <= cut)
          /\ \A k \in 2..cut : w[1] > w[k]
  /\ (Stepped /\ (~FirstCall \/ prev.init_x = NoArray)) =>
       LET n == Len(scores)
           rank(i) == FitnessRank(scores, optim.maximize, i)
       IN /\ \A i, j \in 1..n : rank(i) <= rank(j) => ReceivedWeight(i) >= ReceivedWeight(j)
          /\ \A i, j \in 1..n : (rank(i) = 1 /\ j # i) => ReceivedWeight(i) > ReceivedWeight(j)
          /\ \A i \in 1..n : rank(i) > optim.mu => ReceivedWeight(i) = 0
          /\ optim.xmean =
               [c \in 1..NCols(codes) |->
                  RDiv(SumSeq([i \in 1..n |-> ReceivedWeight(i) * codes[i][c]]), Scale)]

C3_Witness ==
  /\ Stepped
  /\ ~FirstCall
  /\ optim.maximize = FALSE
  /\ scores = <<3, 3, 1, 2>>
  /\ ReceivedWeight(3) > ReceivedWeight(4)
  /\ ReceivedWeight(4) > 0
  /\ ReceivedWeight(1) = 0

\* C4: the step size sigma is strictly positive in every reachable state.
C4_SigmaPositive == optim.sigma # NaN /\ optim.sigma > 0

C4_Witness ==
  /\ Stepped
  /\ optim.istep >= 3
  /\ optim.sigma < prev.sigma
  /\ prev.sigma < Fx(3)

\* |M - identity| <= Tol entrywise, and no entry is NaN
NearIdentity(M) ==
  /\ ~MatHasNaN(M)
  /\ \A i \in 1..Len(M) : \A j \in 1..Len(M[i]) :
       Abs(M[i][j] - (IF i = j THEN Scale ELSE 0)) <= Tol

Refreshed == op = "step_simple" /\ optim.eigeneval # prev.eigeneval

\* C5: immediately after every factor refresh performed by a step call the
\* stored pair satisfies A . Ainv = identity.
C5_FactorPairInverse == Refreshed => NearIdentity(MatMul(optim.A, optim.Ainv))

\* The refresh keeps A . Ainv = identity whenever its normalizer normv is not
\* zero: C5 fails only through the division by normv = 0.
FactorPairInverseUnlessDegenerate ==
  (Refreshed /\ VecMat(optim.pc, prev.Ainv) # Zeros(optim.space_dimen)
             /\ ~MatHasNaN(prev.A))
    => NearIdentity(MatMul(optim.A, optim.Ainv))

\* ----------------------------------- properties of the spherical engine
\* the rows a and b agree within Tol, a non-finite entry only with a
\* non-finite entry
NearRow(a, b) ==
  /\ Len(a) = Len(b)
  /\ \A j \in 1..Len(a) :
       IF a[j] = NaN \/ b[j] = NaN THEN a[j] = b[j] ELSE Abs(a[j] - b[j]) <= Tol

OnTheSphere(row, r) == ~HasNaN(row) /\ Abs(Norm(row) - r) <= Tol

Running == prev.istep >= 0

\* C6: every row of every population step_simple returns has norm
\* sphere_norm, in every generation, in both weight modes and for any
\* scores, tied or equal ones included.
C6_RowsOnSphere ==
  Stepped => \A i \in 1..Len(optim.ret) : OnTheSphere(optim.ret[i], optim.sphere_norm)

\* The rows are on the sphere whenever the weighted mean of the codes can be
\* normalized: C6 fails only through the division by norm(w_mean) = 0 (and
\* the non-finite codes it hands to the next call).
RowsOnSphereUnlessDegenerate ==
  (Stepped /\ ~MatHasNaN(codes) /\ Norm(VecMat(optim.weights, codes)) # 0)
    => \A i \in 1..Len(optim.ret) : OnTheSphere(optim.ret[i], optim.sphere_norm)

\* C7: istep starts at -1, every step call that returns adds exactly 1 to
\* it, no step or lr_schedule call brings it back to -1 once it is >= 0, and
\* at most one returning step call of an instance takes the istep == -1
\* branch.
C7_GenerationIndex ==
  /\ op = "init" => optim.istep = 0 - 1
  /\ Stepped => optim.istep = prev.istep + 1
  /\ op = "lr_schedule" => optim.istep = prev.istep
  /\ Running => optim.istep >= 0
  /\ optim.istep >= 0 - 1
  /\ optim.first_generations <= 1
  /\ optim.istep >= 0 => optim.first_generations = 1

C7_Witness ==
  /\ op = "lr_schedule"
  /\ optim.istep = 2
  /\ optim.mulist # NoArray
  /\ optim.first_generations = 1

\* C8: a returning step call returns B + 1 rows, row 0 the new base point
\* xnew of the call and rows 1..B the images of the B tangent vectors under
\* the exponential map at xnew; when the codes of a call are the population
\* the previous call returned, the call's xcur is that call's xnew.
C8_BaseRowFirst ==
  /\ Stepped =>
       /\ Len(optim.ret) = optim.B + 1
       /\ NearRow(optim.ret[1], optim.xnew[1])
       /\ Len(optim.tang_codes) = optim.B
       /\ \A i \in 1..optim.B :
            optim.ret[i + 1] =
              renormalize(ExpMap(optim.xnew[1], optim.tang_codes), optim.sphere_norm)[i]
  /\ (op = "step_simple" /\ prev.ret # NoArray /\ codes = prev.ret) =>
       /\ optim.xcur = << prev.ret[1] >>
       /\ NearRow(optim.xcur[1], prev.xnew[1])

C8_Witness ==
  /\ Stepped
  /\ codes = prev.ret
  /\ ~MatHasNaN(optim.ret)
  /\ NearRow(optim.xcur[1], prev.xnew[1])
  /\ ~NearRow(optim.xnew[1], optim.xcur[1])
  /\ \A i \in 2..Len(optim.ret) : ~NearRow(optim.ret[i], optim.ret[1])

\* C9: in a running generation in rank mode, with rankbasis false row 0 gets
\* weight exactly 0 and row i >= 1 the rank weight (cutoff select_cutoff) of
\* its fitness rank among rows 1.., one weight per supplied row; with
\* rankbasis true every row gets the rank weight of its rank among all rows.
C9_BasisRowWeight ==
  (Stepped /\ Running /\ optim.rankweight) =>
    LET n == Len(scores)
        w == optim.weights
    IN /\ Len(w) = n
       /\ n = NRows(codes)
       /\ IF optim.rankbasis
          THEN \A i \in 1..n :
                 w[i] = rankweight(n, optim.select_cutoff)[FitnessRank(scores, optim.maximize, i)]
          ELSE /\ w[1] = 0
               /\ \A i \in 2..n :
                    w[i] = rankweight(n - 1, optim.select_cutoff)
                             [FitnessRank(Tail(scores), optim.maximize, i - 1)]

C9_Witness ==
  /\ Stepped
  /\ Running
  /\ optim.rankweight
  /\ ~optim.rankbasis
  /\ scores = <<2, 3, 3, 1>>
  /\ optim.weights[1] = 0
  /\ optim.weights[2] > optim.weights[3]
  /\ optim.weights[3] > 0
  /\ optim.weights[4] = 0

\* the best score of a population: the largest when maximizing
BestScore(sc, maximize) ==
  CHOOSE s \in { sc[i] : i \in 1..Len(sc) } :
    \A i \in 1..Len(sc) : IF maximize THEN sc[i] <= s ELSE sc[i] >= s

\* C10 as stated: in raw-weight mode the weight of individual i is
\* (score_i - best score of the supplied population) / B in both generations.
C10_WeightAgainstBest ==
  (Stepped /\ ~optim.rankweight) =>
    \A i \in 1..Len(scores) :
      optim.weights[i] = RDiv((scores[i] - BestScore(scores, optim.maximize)) * Scale, optim.B)

\* C10 as amended: in raw-weight mode the weight of individual i is
\* (score_i - score of row 0, the basis row) / B in both generations.
C10_WeightAgainstBasis ==
  (Stepped /\ ~optim.rankweight) =>
    /\ Len(optim.weights) = Len(scores)
    /\ \A i \in 1..Len(scores) :
         optim.weights[i] = RDiv((scores[i] - scores[1]) * Scale, optim.B)

C10_Witness ==
  /\ Stepped
  /\ Running
  /\ ~optim.rankweight
  /\ scores = <<2, 3, 3, 1>>
  /\ optim.weights[1] = 0
  /\ optim.weights[2] > 0
  /\ optim.weights[4] < 0
  /\ ~MatHasNaN(optim.ret)

\* ------------------------------------------- rankweight and the weights
\* Largest population size the weight vectors are computed for.
MaxLambda == 12


\* A call rankweight(lambda_, mu) to be made (mu None for the default), or
\* an engine to be constructed with population size lambda_.
WeightsInit ==
  /\ \E l \in 2..MaxLambda, m \in { None } \cup (1..MaxLambda) :
       /\ m = None \/ m <= l
       /\ optim = [kind |-> "rankweight", lambda_ |-> l, mu |-> m, ret |-> NoArray]
  /\ prev = optim
  /\ op = "init"
  /\ scores = NoArray
  /\ codes = NoArray

\* rankweight(lambda_, mu)
call_rankweight ==
  /\ op = "init"
  /\ optim' = [optim EXCEPT !.ret = rankweight(optim.lambda_, optim.mu)]
  /\ prev' = optim
  /\ op' = "rankweight"
  /\ UNCHANGED << scores, codes >>

\* CholeskyCMAES(Dimen, population_size=lambda_) or HessCMAES(Dimen,
\* population_size=lambda_)
construct ==
  /\ op = "init"
  /\ optim.mu = None
  /\ \E sigma \in InitSigmas :
       \/ optim' = CholeskyCMAES(Dimen, optim.lambda_, sigma, NoArray, 0, TRUE)
       \/ optim' = HessCMAES(Dimen, optim.lambda_, None, sigma, NoArray, 0, TRUE)
  /\ prev' = optim
  /\ op' = "construct"
  /\ UNCHANGED << scores, codes >>

WeightsNext == call_rankweight \/ construct

SpecWeights == WeightsInit /\ [][WeightsNext]_vars

\* no entry is negative or non-finite and the entries sum to 1
Convex(w) ==
  /\ ~HasNaN(w)
  /\ \A i \in 1..Len(w) : w[i] >= 0
  /\ Abs(SumSeq(w) - Scale) <= Tol

ColsTo(M, n) == [i \in 1..Len(M) |-> Take(M[i], n)]
ColsFrom(M, n) ==
  [i \in 1..Len(M) |-> IF n >= Len(M[i]) THEN << >> ELSE SubSeq(M[i], n + 1, Len(M[i]))]
\* np.concatenate((X, Y), axis=1) of two arrays with as many rows
Concatenate(X, Y) == [i \in 1..Len(X) |-> X[i] \o Y[i]]

concat_wrapper(optim1, optim2) ==
  [ kind |-> "concat_wrapper",
    optim1 |-> optim1,
    optim2 |-> optim2,
    sep |-> optim1.space_dimen,
    ret |-> NoArray,
    raised |-> FALSE ]

\* concat_wrapper.step_simple(scores_, codes_), z1 and z2 the draws of the two
\* engines.  An exception of optim1 leaves optim2 unstepped; np.concatenate
\* raises ValueError when the two populations differ in their number of rows,
\* after both engines have been stepped.
ConcatStepSimple(self, scores_, codes_, z1, z2) ==
  LET o1 == StepSimple(self.optim1, scores_, ColsTo(codes_, self.sep), z1)
      o2 == StepSimple(self.optim2, scores_, ColsFrom(codes_, self.sep), z2)
  IN IF o1.raised THEN [self EXCEPT !.optim1 = o1, !.raised = TRUE, !.ret = NoArray]
     ELSE IF o2.raised \/ NRows(o1.ret) # NRows(o2.ret)
     THEN [self EXCEPT !.optim1 = o1, !.optim2 = o2, !.raised = TRUE, !.ret = NoArray]
     ELSE [self EXCEPT !.optim1 = o1, !.optim2 = o2, !.raised = FALSE,
                       !.ret = Concatenate(o1.ret, o2.ret)]

\* Two runs of a wrapper over two one-dimensional engines.  The engine
\* `same` (1 or 2) has one configuration, one slice of the codes and one
\* sequence of draws in both runs; the other engine is constructed with
\* (population_size, init_sigma, maximize) base in run1 and varied in run2,
\* and gets another slice of the codes and other draws in run2.
Column(a, b, c, d) == << << Fx(a) >>, << Fx(b) >>, << Fx(c) >>, << Fx(d) >> >>
Engine(cfg) == CholeskyCMAES(1, cfg[1], cfg[2], NoArray, 0, cfg[3])
SameConfig == << 4, Fx(3), TRUE >>
BaseConfig == << 4, Fx(1), TRUE >>
Variations ==
  { << 2, << 4, Fx(1), TRUE >> >>,
    << 2, << 4, Fx(2), FALSE >> >>,
    << 2, << 2, Fx(1), TRUE >> >>,
    << 1, << 4, Fx(2), TRUE >> >> }
SameColumns == { Column(1, 0, 2, 1), Column(0, 3, 1, 1) }
SameDraws == { Column(1, 0, 0 - 1, 2), Column(0, 1, 1, 0 - 2) }
BaseColumn == Column(0, 1, 1, 0)
VariedColumn == Column(2, 0, 1, 3)
BaseDraw == Column(1, 1, 0, 0 - 1)
VariedDraw(lambda_) == Take(Column(0, 2, 0 - 1, 1), lambda_)

Pair(same, e, other) == IF same = 1 THEN << e, other >> ELSE << other, e >>
Wrapper(p) == concat_wrapper(p[1], p[2])
Codes(p) == Concatenate(p[1], p[2])

ConcatInit ==
  /\ \E v \in Variations :
       optim = [ same |-> v[1],
                 run1 |-> Wrapper(Pair(v[1], Engine(SameConfig), Engine(BaseConfig))),
                 run2 |-> Wrapper(Pair(v[1], Engine(SameConfig), Engine(v[2]))) ]
  /\ prev = optim
  /\ op = "init"
  /\ scores = NoArray
  /\ codes = NoArray

\* run1.step_simple(scores, codes1) and run2.step_simple(scores, codes2)
concat_step_simple ==
  /\ optim.run1.optim1.istep < MaxSteps
  /\ \E sc \in ScoreSet, col \in SameColumns, z \in SameDraws :
       LET cd1 == Codes(Pair(optim.same, col, BaseColumn))
           cd2 == Codes(Pair(optim.same, col, VariedColumn))
           z1 == Pair(optim.same, z, BaseDraw)
           other == IF optim.same = 1 THEN optim.run2.optim2 ELSE optim.run2.optim1
           z2 == Pair(optim.same, z, VariedDraw(other.lambda_))
       IN /\ optim' = [optim EXCEPT
                         !.run1 = ConcatStepSimple(@, sc, cd1, z1[1], z1[2]),
                         !.run2 = ConcatStepSimple(@, sc, cd2, z2[1], z2[2])]
          /\ scores' = sc
          /\ codes' = << cd1, cd2 >>
  /\ prev' = optim
  /\ op' = "step_simple"

SpecConcat == ConcatInit /\ [][concat_step_simple]_vars

\* ------------------------------------------ properties of concat_wrapper
SteppedOnce(w, before) ==
  /\ w.optim1.istep = before.optim1.istep + 1
  /\ w.optim2.istep = before.optim2.istep + 1
ReturnsConcatenation(w) ==
  /\ ~w.raised
  /\ w.ret = Concatenate(w.optim1.ret, w.optim2.ret)
  /\ ColsTo(w.ret, w.sep) = w.optim1.ret
SameEngine(w) == IF optim.same = 1 THEN w.optim1 ELSE w.optim2
SameBlock(w) == IF optim.same = 1 THEN ColsTo(w.ret, w.sep) ELSE ColsFrom(w.ret, w.sep)
Concatenable(w) == w.optim1.lambda_ = w.optim2.lambda_

\* C12: every step of a concat_wrapper steps each engine once and returns the
\* column-wise concatenation of their populations, and the engine whose
\* configuration, slice and draws are the same in two runs has the same state
\* and the same columns in both, whatever the other engine's configuration
\* and slice are.
C12_ConcatIndependent ==
  op = "step_simple" =>
    /\ SteppedOnce(optim.run1, prev.run1) /\ SteppedOnce(optim.run2, prev.run2)
    /\ ReturnsConcatenation(optim.run1) /\ ReturnsConcatenation(optim.run2)
    /\ SameEngine(optim.run1) = SameEngine(optim.run2)
    /\ SameBlock(optim.run1) = SameBlock(optim.run2)

\* the same, for wrappers over two engines of one population size
ConcatIndependentWhenConcatenable ==
  (op = "step_simple" /\ Concatenable(optim.run2)) => C12_ConcatIndependent

\* ---------------------------------------------------- fix_param_wrapper
\* codes[:, :-n]; the slice :-0 is the empty slice :0
ColsButLast(M, n) ==
  [i \in 1..Len(M) |-> IF n = 0 THEN << >> ELSE Take(M[i], Max2(Len(M[i]) - n, 0))]
\* np.repeat(M, n, axis=0): every row n times in a row
Repeat(M, n) == [i \in 1..(Len(M) * n) |-> M[((i - 1) \div n) + 1]]

fix_param_wrapper(optim_, fixed_code, pre) ==
  [ kind |-> "fix_param_wrapper",
    optim |-> optim_,
    fix_code |-> fixed_code,
    pre |-> pre,
    sep |-> NCols(fixed_code),
    ret |-> NoArray,
    raised |-> FALSE ]

\* the slice of the codes the inner engine is stepped with
FreeSlice(self, X) == IF self.pre THEN ColsFrom(X, self.sep) ELSE ColsButLast(X, self.sep)

AttachedLeading(self, new_codes1) ==
  Concatenate(Repeat(self.fix_code, NRows(new_codes1)), new_codes1)
\* the returned population: the fixed code repeated beside the new codes
Attached(self, new_codes1) ==
  IF self.pre
  THEN Concatenate(Repeat(self.fix_code, NRows(new_codes1)), new_codes1)
  ELSE Concatenate(new_codes1, Repeat(self.fix_code, NRows(new_codes1)))

\* fix_param_wrapper.step_simple(scores_, codes_), z the draws of the engine
FixStepSimple(self, scores_, codes_, z) ==
  LET o == StepSimple(self.optim, scores_, FreeSlice(self, codes_), z)
  IN IF o.raised
     THEN [self EXCEPT !.optim = o, !.raised = TRUE, !.ret = NoArray]
     ELSE [self EXCEPT !.optim = o, !.raised = FALSE, !.ret = Attached(self, o.ret)]

FixedCodes == { << << Fx(7) >> >>, << << Fx(7), Fx(0 - 8) >> >> }

FixInit ==
  /\ \E pre \in BOOLEAN, fixed_code \in FixedCodes, sigma \in InitSigmas :
       optim = fix_param_wrapper(
                 CholeskyCMAES(Dimen, PopSize, sigma, NoArray, 1, TRUE), fixed_code, pre)
  /\ prev = optim
  /\ op = "init"
  /\ scores = NoArray
  /\ codes = NoArray

\* step_simple(scores, codes) on codes that carry the fixed code in its place
fix_step_simple ==
  /\ optim.optim.istep < MaxSteps
  /\ \E sc \in ScoreSet, cd \in CodeSet, z \in ZSet :
       /\ optim' = FixStepSimple(optim, sc, Attached(optim, cd), z)
       /\ scores' = sc
       /\ codes' = Attached(optim, cd)
  /\ prev' = optim
  /\ op' = "step_simple"

SpecFix == FixInit /\ [][fix_step_simple]_vars

\* the columns of a returned row where the fixed code is, and the others
FixedPart(self, row) ==
  IF self.pre THEN Take(row, self.sep)
  ELSE SubSeq(row, Len(row) - self.sep + 1, Len(row))
FreePart(self, row) ==
  IF self.pre THEN SubSeq(row, self.sep + 1, Len(row))
  ELSE Take(row, Len(row) - self.sep)

\* C13: every row of every population a fix_param_wrapper returns carries the
\* fixed code unchanged in its place (leading when pre, trailing otherwise),
\* the other columns are the codes the inner engine returned, and the inner
\* engine was stepped once, with the slice of the codes that is not fixed.
C13_FixedCodeKept ==
  op = "step_simple" =>
    /\ ~optim.raised
    /\ optim.fix_code = prev.fix_code /\ optim.pre = prev.pre /\ optim.sep = prev.sep
    /\ NRows(optim.ret) = NRows(optim.optim.ret)
    /\ \A i \in 1..NRows(optim.ret) :
         /\ FixedPart(optim, optim.ret[i]) = optim.fix_code[1]
         /\ FreePart(optim, optim.ret[i]) = optim.optim.ret[i]
    /\ optim.optim.istep = prev.optim.istep + 1
    /\ optim.optim =
         StepSimple(prev.optim, scores,
                    [i \in 1..NRows(codes) |-> FreePart(prev, codes[i])], optim.optim.randz)

C13_Witness ==
  /\ op = "step_simple"
  /\ ~optim.pre
  /\ optim.sep = 2
  /\ optim.optim.istep = 2
  /\ NRows(optim.ret) = PopSize
  /\ optim.ret[1] # optim.ret[2]
  /\ SubSeq(optim.ret[2], 3, 4) = << Fx(7), Fx(0 - 8) >>

\* ------------------------------------- optim_params and several instances
\* an optim_params dictionary: None where the key is absent
NoParams == [cc |-> None, cs |-> None, c1 |-> None]
Given(optim_params, key, computed) ==
  IF optim_params[key] = None THEN computed ELSE optim_params[key]

\* the overrides of cc, cs and c1; damps and update_crit are computed after
Override(self, optim_params, Aupdate_freq) ==
  LET cs == Given(optim_params, "cs", self.cs)
      c1 == Given(optim_params, "c1", self.c1)
  IN [self EXCEPT !.cc = Given(optim_params, "cc", self.cc),
                  !.cs = cs,
                  !.c1 = c1,
                  !.damps = self.damps - self.cs + cs,
                  !.update_crit = UpdateCrit(Aupdate_freq, self.lambda_, c1, self.space_dimen)]

CholeskyCMAESWith(space_dimen, population_size, init_sigma, init_code, Aupdate_freq, maximize, optim_params) ==
  Override(CholeskyCMAES(space_dimen, population_size, init_sigma, init_code,
                         Aupdate_freq, maximize),
           optim_params, Aupdate_freq)

DefaultKeepsGiven(default, optim_params) == optim_params
\* the object of the default argument optim_params={} after a constructor was
\* called with optim_params: the constructors read the dictionary only
DefaultAfter(default, optim_params) == default

OtherParams == [cc |-> 500, cs |-> None, c1 |-> 100]
OtherScores == << 2, 1, 4, 3 >>
OtherCodes == << V(1, 1), V(0, 2), V(3, 0), V(2, 2) >>
OtherDraws == << V(0, 1), V(1, 1), V(2, 0), V(0 - 1, 0) >>

\* Three constructor calls in a row: first with the default optim_params,
\* other with a dictionary of its own, second with the default again.
TwinInit ==
  /\ \E init_code \in InitCodes, sigma \in InitSigmas :
       LET d1 == DefaultAfter(NoParams, NoParams)
           d2 == DefaultAfter(d1, OtherParams)
       IN optim = [ first |-> CholeskyCMAESWith(Dimen, PopSize, sigma, init_code, 1, TRUE, NoParams),
                    other |-> CholeskyCMAESWith(Dimen, PopSize, Fx(1), NoArray, 0, FALSE, OtherParams),
                    second |-> CholeskyCMAESWith(Dimen, PopSize, sigma, init_code, 1, TRUE, d2),
                    default |-> DefaultAfter(d2, d2) ]
  /\ prev = optim
  /\ op = "init"
  /\ scores = NoArray
  /\ codes = NoArray

\* first.step_simple(scores, codes); second.step_simple(scores, codes), with
\* the same draws
twin_step_simple ==
  /\ optim.first.istep < MaxSteps
  /\ \E sc \in ScoreSet, cd \in CodeSet, z \in ZSet :
       /\ optim' = [optim EXCEPT !.first = StepSimple(@, sc, cd, z),
                                 !.second = StepSimple(@, sc, cd, z)]
       /\ scores' = sc
       /\ codes' = cd
  /\ prev' = optim
  /\ op' = "step_simple"

\* other.step_simple(...), between two steps of the twins
other_step_simple ==
  /\ optim.other.istep < 2
  /\ optim' = [optim EXCEPT !.other = StepSimple(@, OtherScores, OtherCodes, OtherDraws)]
  /\ prev' = optim
  /\ op' = "other"
  /\ UNCHANGED << scores, codes >>

TwinNext == twin_step_simple \/ other_step_simple
SpecTwin == TwinInit /\ [][TwinNext]_vars

HalfDimen == Dimen \div 2
CholCMA == << "Chol", "CMA" >>
CholCMA_class == << "Chol", "CMA", "_class" >>
CholCMA_noise == << "Chol", "CMA", "_noise" >>
CholCMA_prod == << "Chol", "CMA", "_prod" >>
CholCMA_noA == << "Chol", "CMA", "_noA" >>
HessCMA == << "Hess", "CMA" >>
HessCMA_noA == << "Hess", "CMA", "_noA" >>
HessCMA_class == << "Hess", "CMA", "_class" >>
HessCMA800 == << "Hess", "CMA", "800" >>
HessCMA500 == << "Hess", "CMA", "500" >>
HessCMA500_1 == << "Hess", "CMA", "500", "_1" >>
Labels ==
  { CholCMA, CholCMA_class, CholCMA_noise, CholCMA_prod, CholCMA_noA, HessCMA,
    HessCMA_noA, HessCMA_class, HessCMA800, HessCMA500, HessCMA500_1,
    << "Chol", "CMA", "_Hess" >>, << "Genetic" >> }
GANs == { "BigGAN", "fc6", "StyleGAN" }

\* Hdata=None, and the curvature data of a latent space and of its class half
NoHdata == [none |-> TRUE]
Hdatas ==
  { NoHdata,
    [avg |-> [eigvals |-> <<1, 4>>, eigvects |-> << V(0, 1), V(1, 0) >>],
     clas |-> [eigvals |-> <<2>>, eigvects |-> << << Fx(1) >> >>]] }
\* x[::-1]
Reverse(s) == [i \in 1..Len(s) |-> s[Len(s) + 1 - i]]
\* M[:, ::-1]
ReverseCols(M) == [i \in 1..Len(M) |-> Reverse(M[i])]

\* "Hess" in methodlabel
InLabel(part, methodlabel) == \E i \in 1..Len(methodlabel) : methodlabel[i] = part

MissingHessianOfHessCMA(methodlabel, Hdata) == Hdata = NoHdata /\ methodlabel = HessCMA
\* if Hdata is None and "Hess" in methodlabel
MissingHessian(methodlabel, Hdata) == Hdata = NoHdata /\ InLabel("Hess", methodlabel)

\* a call that raised `error` after `engines` engine constructors returned
Failed(error, engines) ==
  [raised |-> TRUE, error |-> error, engines |-> engines, optim_cust |-> NoArray]
\* before the call
NotCalled == [raised |-> FALSE, error |-> "", engines |-> 0, optim_cust |-> NoArray]
Returned(optim_cust, engines) ==
  [raised |-> FALSE, error |-> "", engines |-> engines, optim_cust |-> optim_cust]

\* HessCMAES(...) followed by set_Hessian(eigvals=eva, eigvects=evc, expon=...)
HessWith(H, space_dimen, cutoff, init_sigma, init_code, Aupdate_freq, expon) ==
  SetHessian(HessCMAES(space_dimen, None, cutoff, init_sigma, init_code, Aupdate_freq, TRUE),
             Reverse(H.eigvals), ReverseCols(H.eigvects), expon)

\* init_code is None or an array of shape (1, Dimen)
label2optimizer(methodlabel, init_code, GAN, Hdata) ==
  LET whole == IF init_code = NoArray THEN NoArray ELSE init_code[1]
      first == ColsTo(init_code, HalfDimen)
      last == ColsFrom(init_code, HalfDimen)
      sliced == init_code # NoArray
      data == Hdata # NoHdata
      Chol(N, code, sigma, freq) == CholeskyCMAES(N, None, sigma, code, freq, TRUE)
  IN IF MissingHessian(methodlabel, Hdata) THEN Failed("FileNotFoundError", 0)
     ELSE IF GAN = "BigGAN" /\ methodlabel = CholCMA
       THEN Returned(Chol(Dimen, whole, 200, 10), 1)
     ELSE IF GAN = "BigGAN" /\ methodlabel = CholCMA_class
       THEN IF ~sliced THEN Failed("TypeError", 0)
            ELSE Returned(fix_param_wrapper(Chol(HalfDimen, last[1], 60, 10), first, TRUE), 1)
     ELSE IF GAN = "BigGAN" /\ methodlabel = CholCMA_noise
       THEN IF ~sliced THEN Failed("TypeError", 0)
            ELSE Returned(fix_param_wrapper(Chol(HalfDimen, first[1], 300, 10), last, FALSE), 1)
     ELSE IF GAN = "BigGAN" /\ methodlabel = CholCMA_prod
       THEN IF ~sliced THEN Failed("TypeError", 0)
            ELSE Returned(concat_wrapper(Chol(HalfDimen, first[1], 100, 10),
                                         Chol(HalfDimen, last[1], 60, 10)), 2)
     ELSE IF GAN = "BigGAN" /\ methodlabel = CholCMA_noA
       THEN Returned(Chol(Dimen, whole, 200, 102), 1)
     ELSE IF GAN = "BigGAN" /\ methodlabel = HessCMA
       THEN IF ~data THEN Failed("TypeError", 0)
            ELSE Returned(HessWith(Hdata.avg, Dimen, None, 200, whole, 10, Expon), 1)
     ELSE IF GAN = "BigGAN" /\ methodlabel = HessCMA_noA
       THEN IF ~data THEN Failed("TypeError", 0)
            ELSE Returned(HessWith(Hdata.avg, Dimen, None, 200, whole, 102, Expon), 1)
     ELSE IF GAN = "BigGAN" /\ methodlabel = HessCMA_class
       THEN IF ~data \/ ~sliced THEN Failed("TypeError", 0)
            ELSE Returned(fix_param_wrapper(
                            HessWith(Hdata.clas, HalfDimen, None, 200, last[1], 10, Expon),
                            first, TRUE), 1)
     ELSE IF GAN = "fc6" /\ methodlabel = CholCMA
       THEN Returned(Chol(Dimen, whole, 3000, 10), 1)
     ELSE IF GAN = "fc6" /\ methodlabel = CholCMA_noA
       THEN Returned(Chol(Dimen, whole, 3000, 102), 1)
     ELSE IF GAN = "fc6" /\ methodlabel \in { HessCMA800, HessCMA500 }
       THEN IF ~data THEN Failed("TypeError", 0)
            ELSE Returned(HessWith(Hdata.avg, Dimen, HalfDimen, 800, whole, 10, 200), 1)
     ELSE IF GAN = "fc6" /\ methodlabel = HessCMA500_1
       THEN IF ~data THEN Failed("TypeError", 0)
            ELSE Returned(HessWith(Hdata.avg, Dimen, HalfDimen, 400, whole, 10, 250), 1)
     ELSE Failed("UnboundLocalError", 0)

LabelInit ==
  /\ \E methodlabel \in Labels, init_code \in { NoArray, << V(1, 2) >> }, GAN \in GANs,
        Hdata \in Hdatas :
       optim = [ methodlabel |-> methodlabel, init_code |-> init_code, GAN |-> GAN,
                 Hdata |-> Hdata, result |-> NotCalled ]
  /\ prev = optim
  /\ op = "init"
  /\ scores = NoArray
  /\ codes = NoArray

call_label2optimizer ==
  /\ op = "init"
  /\ optim' = [optim EXCEPT
                 !.result = label2optimizer(optim.methodlabel, optim.init_code,
                                            optim.GAN, optim.Hdata)]
  /\ prev' = optim
  /\ op' = "label2optimizer"
  /\ UNCHANGED << scores, codes >>

SpecLabel == LabelInit /\ [][call_label2optimizer]_vars

\* C15: called with a label that has "Hess" in it and with no curvature data,
\* label2optimizer raises FileNotFoundError before it constructs any engine,
\* and returns no optimizer.
C15_HessianRequired ==
  (op = "label2optimizer" /\ optim.Hdata = NoHdata /\ InLabel("Hess", optim.methodlabel)) =>
    /\ optim.result.raised
    /\ optim.result.error = "FileNotFoundError"
    /\ optim.result.engines = 0
    /\ optim.result.optim_cust = NoArray

C15_Witness ==
  /\ op = "label2optimizer"
  /\ optim.methodlabel = HessCMA500
  /\ optim.GAN = "fc6"
  /\ optim.Hdata = NoHdata
  /\ optim.result.raised
  /\ optim.result.error = "FileNotFoundError"

\* --------------------------------------------- calls with unusual shapes
\* An engine of EdgePop codes a generation (mu = 3), stepped with well-shaped
\* arguments, with fewer codes than mu, with codes of one column too many and
\* with fewer codes than scores, until a call raises.
EdgePop == 6
V3(a, b, c) == << Fx(a), Fx(b), Fx(c) >>
EdgeInputs ==
  { [scores |-> <<1, 5, 2, 6, 3, 4>>,
     codes |-> << V(1, 0), V(0, 1), V(1, 1), V(0, 0), V(2, 1), V(0, 2) >>],
    [scores |-> <<2, 5>>, codes |-> << V(3, 1), V(1, 2) >>],
    [scores |-> <<4>>, codes |-> << V(2, 5) >>],
    [scores |-> <<1, 5, 2, 6, 3, 4>>,
     codes |-> << V3(1, 0, 1), V3(0, 1, 0), V3(1, 1, 2), V3(0, 0, 1), V3(2, 1, 0),
                  V3(0, 2, 2) >>],
    [scores |-> <<1, 5, 2, 6, 3, 4>>, codes |-> << V(1, 0), V(0, 1) >>] }
EdgeDraws ==
  { << V(1, 0), V(0, 1), V(0 - 1, 1), V(1, 2), V(0, 0), V(2, 0 - 1) >>,
    << V(0, 1), V(1, 1), V(0, 0 - 2), V(0 - 1, 0), V(1, 0), V(0, 0) >> }

EdgeInit ==
  /\ \E sigma \in InitSigmas, init_code \in InitCodes, freq \in UpdateFreqs :
       optim = CholeskyCMAES(Dimen, EdgePop, sigma, init_code, freq, TRUE)
  /\ prev = optim
  /\ op = "init"
  /\ scores = NoArray
  /\ codes = NoArray

edge_step_simple ==
  /\ optim.istep < MaxSteps
  /\ ~optim.raised
  /\ \E in \in EdgeInputs, z \in EdgeDraws :
       /\ optim' = StepSimple(optim, in.scores, in.codes, z)
       /\ scores' = in.scores
       /\ codes' = in.codes
  /\ prev' = optim
  /\ op' = "step_simple"

SpecEdge == EdgeInit /\ [][edge_step_simple]_vars

\* the state the statement lists: mean, paths, step size, factor pair,
\* refresh time, retained draws and counters
Committed(self) ==
  << self.xmean, self.xold, self.ps, self.pc, self.sigma, self.A, self.Ainv,
     self.eigeneval, self.randz, self.counteval, self.istep >>

\* C16: a step_simple call that raises leaves the instance as it was before
\* the call: mean, paths, step size, factor pair, refresh time, retained
\* draws and counters.
C16_FailedStepCommitsNothing ==
  (op = "step_simple" /\ optim.raised) => Committed(optim) = Committed(prev)

\* the calls that raise before the first assignment do leave it as it was
IndexErrorCommitsNothing ==
  (op = "step_simple" /\ optim.raised /\ prev.istep = 0 /\ NCols(codes) = Dimen)
    => Committed(optim) = Committed(prev)

\* the first k weights over their sum, times the k codes in rank order
RECURSIVE WeightedSum(_, _, _, _)
WeightedSum(w, X, j, k) ==
  IF k = 0 THEN 0 ELSE w[k] * X[k][j] + WeightedSum(w, X, j, k - 1)
RenormalizedMean(weights, ranked, k) ==
  [j \in 1..NCols(ranked) |->
     RDiv(WeightedSum(weights, ranked, j, k), SumSeq(Take(weights, k)))]
FewCodes == op = "step_simple" /\ prev.istep = 0 /\ prev.init_x = NoArray /\ Len(scores) < prev.mu

\* C18: the first call of an engine that has no initial mean, with k codes,
\* 1 <= k < mu, does not raise: it returns lambda_ new codes and the mean is
\* the k codes in rank order combined with the first k weights renormalized.
C18_FewCodesFirstCall ==
  FewCodes =>
    /\ ~optim.raised
    /\ NRows(optim.ret) = optim.lambda_
    /\ NCols(optim.ret) = Dimen
    /\ LET k == Len(scores)
           ranked == Rows(codes, SortIndex(prev.maximize, scores))
           mean == RenormalizedMean(prev.weights, ranked, k)
       IN \A j \in 1..Dimen : Abs(optim.xmean[j] - mean[j]) <= Tol

C18_Witness ==
  /\ FewCodes
  /\ Len(scores) = 2
  /\ prev.mu = 3
  /\ NRows(optim.ret) = EdgePop
  /\ optim.xmean # codes[1]
  /\ optim.xmean # codes[2]

\* ------------------------------------------------- the zero normalizer
\* normv = v @ v.T of the refresh the last call made, v = pc @ Ainv
Normv == LET v == VecMat(optim.pc, prev.Ainv) IN Dot(v, v)

\* C17: a refresh whose normalizer normv is zero is skipped or signalled: it
\* leaves no NaN or Inf in A or Ainv, and the call does not raise once mean,
\* paths, step size and refresh time are assigned.
C17_ZeroNormalizerGuarded ==
  (Refreshed /\ ~MatHasNaN(prev.A) /\ Normv = 0) =>
    /\ ~MatHasNaN(optim.A)
    /\ ~MatHasNaN(optim.Ainv)
    /\ ~optim.raised

\* ------------------------------------------------ the first generation
Cholesky == optim.kind = "CholeskyCMAES"
\* the draws the previous call retained, combined in this call's rank order
RetainedDraws ==
  VecMat(prev.weights, Rows(prev.randz, Take(optim.code_sort_index, prev.mu)))

\* C19: the first step_simple call on a fresh Cholesky engine leaves both
\* paths, the step size, the factor pair and the refresh time as constructed
\* and changes only the mean, the retained draws and the two counters; the
\* paths, step size and factors are updated from the second call on, from the
\* draws the call before retained.
C19_FirstCallFrame ==
  (Stepped /\ Cholesky) =>
    IF FirstCall
    THEN /\ optim.ps = Zeros(Dimen) /\ optim.pc = Zeros(Dimen)
         /\ optim.sigma = prev.sigma
         /\ optim.A = Eye(Dimen, Dimen) /\ optim.Ainv = Eye(Dimen, Dimen)
         /\ optim.eigeneval = 0
         /\ optim = [prev EXCEPT !.xmean = optim.xmean, !.randz = optim.randz,
                                 !.counteval = prev.lambda_, !.istep = 1,
                                 !.ret = optim.ret,
                                 !.code_sort_index = optim.code_sort_index]
    ELSE /\ optim.ps = UpdatePs(prev, RetainedDraws)
         /\ optim.pc = UpdatePc(prev, RetainedDraws)
         /\ optim.sigma = UpdateSigma(prev, optim.ps)

C19_Witness ==
  /\ Stepped /\ Cholesky /\ ~FirstCall
  /\ prev.istep = 1
  /\ prev.ps = Zeros(Dimen)
  /\ prev.A = Eye(Dimen, Dimen)
  /\ optim.ps # Zeros(Dimen)
  /\ optim.sigma # prev.sigma
  /\ optim.A # prev.A

\* ------------------------------------------ HessCMAES beside CholeskyCMAES
\* Three engines stepped together: a CholeskyCMAES, a HessCMAES of the same
\* configuration without cutoff, both given the same scores, codes and
\* draws, and a HessCMAES of Ambient entries with cutoff Dimen, given the
\* same scores and draws and the codes with one more column.
Ambient == Dimen + 1
Widen(X) == [i \in 1..Len(X) |-> X[i] \o << Fx(i) >>]

HessInit ==
  /\ \E sigma \in InitSigmas, init_code \in InitCodes, freq \in UpdateFreqs :
       optim = [ chol |-> CholeskyCMAES(Dimen, PopSize, sigma, init_code, freq, TRUE),
                 hess |-> HessCMAES(Dimen, PopSize, None, sigma, init_code, freq, TRUE),
                 cut |-> HessCMAES(Ambient, PopSize, Dimen, sigma,
                                   IF init_code = NoArray THEN NoArray
                                   ELSE init_code \o << Fx(1) >>, freq, TRUE) ]
  /\ prev = optim
  /\ op = "init"
  /\ scores = NoArray
  /\ codes = NoArray

hess_step_simple ==
  /\ optim.chol.istep < MaxSteps
  /\ \E sc \in ScoreSet, cd \in CodeSet, z \in ZSet :
       /\ optim' = [ chol |-> StepSimple(optim.chol, sc, cd, z),
                     hess |-> StepSimple(optim.hess, sc, cd, z),
                     cut |-> StepSimple(optim.cut, sc, Widen(cd), z) ]
       /\ scores' = sc
       /\ codes' = cd
  /\ prev' = optim
  /\ op' = "step_simple"

SpecHess == HessInit /\ [][hess_step_simple]_vars

\* mean, paths, step size, factor pair, counters and returned codes agree
SameMechanics ==
  /\ ~optim.hess.raised /\ ~optim.chol.raised
  /\ [optim.hess EXCEPT !.kind = optim.chol.kind] = optim.chol

Min2(a, b) == IF a <= b THEN a ELSE b
\* the number of the step_simple call that returned last: 1, 2, ...
CallNumber == prev.istep + 2
Scheduled == prev.mulist # NoArray

\* C21: with a schedule of n >= 1 entries the k-th step_simple call of the
\* spherical engine scales its tangent vectors by entry min(k, n) of the
\* schedule, so the index is never out of range and the calls after the n-th
\* keep the last entry; a step_simple call before any lr_schedule call raises.
C21_ScheduleEntry ==
  /\ (op = "step_simple" /\ ~Scheduled) => optim.raised
  /\ (op = "step_simple" /\ Scheduled /\ ~optim.raised) =>
       /\ Len(prev.mulist) >= 1
       /\ optim.tang_codes =
            SMul(prev.mulist[Min2(CallNumber, Len(prev.mulist))], optim.outerV)

C21_Witness ==
  /\ op = "step_simple"
  /\ ~optim.raised
  /\ Len(prev.mulist) = 2
  /\ prev.mulist[1] # prev.mulist[2]
  /\ CallNumber = 3
  /\ optim.tang_codes # ZerosMat(SphereB, Dimen)
  /\ ~MatHasNaN(optim.tang_codes)
  /\ optim.tang_codes = SMul(prev.mulist[2], optim.outerV)

\* ------------------------------------------- counters and refresh cadence
\* F of update_crit = F * lambda_
Frequency(self) == self.update_crit \div Fx(self.lambda_)
\* the 0-based index of the step_simple call that returned last
CallIndex == prev.istep

====
